---- MODULE Spec2Model ----
(***************************************************************************)
(* Model of go-nano64: the 64-bit identifier layout (nano64.go), the       *)
(* plain generator Generate and the process-wide monotonic sequencer       *)
(* GenerateMonotonic with its state lastTimestamp / lastRandom guarded by  *)
(* monotonicMutex.                                                         *)
(*                                                                         *)
(* TLC's integers are 32 bits wide, so the 44 + 20 bit layout of the       *)
(* source cannot be evaluated at full width.  The two field widths are     *)
(* therefore parameters of the model (ModelTimestampBits, ModelRandomBits) *)
(* and every mask, shift and limit is derived from them exactly as the     *)
(* source derives it from TimestampBits and RandomBits.  The unsigned word *)
(* (uint64 in the source) is TimestampBits + RandomBits wide, as it is in  *)
(* the source (44 + 20 = 64).  Where the text below says 2^44-1 or 2^20-1  *)
(* it means maxTimestamp and randomMask.                                   *)
(***************************************************************************)
EXTENDS Integers, Sequences, FiniteSets, TLC

\* ------------------------------------------------------------------ bounds
\* Width of the timestamp field in the model (44 in the source).
ModelTimestampBits == 2
\* Width of the random field in the model (20 in the source).
ModelRandomBits == 1
\* How many bits the entropy source may return above the random field
\* (uint32 in the source is 12 bits wider than the 20-bit field).
RngExtraBits == 1
\* Requested timestamps range over -TsSlack .. maxTimestamp + TsSlack.
TsSlack == 1
\* Number of concurrent callers of GenerateMonotonic.
NumCallers == 2

\* --------------------------------------------------------------- constants
TimestampBits == ModelTimestampBits
RandomBits == ModelRandomBits
timestampShift == RandomBits
timestampMask == (2 ^ TimestampBits) - 1
randomMask == (2 ^ RandomBits) - 1
maxTimestamp == timestampMask

\* Width of the unsigned word holding an identifier (uint64).
WordBits == TimestampBits + RandomBits
\* Width of the value an RNG returns (uint32).
RngBits == RandomBits + RngExtraBits

\* ------------------------------------------------------- integer operators
\* Conversion of a signed integer to the unsigned word (two's complement).
ToUint64(x) == x % (2 ^ WordBits)

RECURSIVE BitAnd(_, _)
BitAnd(a, b) ==
    IF a = 0 \/ b = 0 THEN 0
    ELSE (a % 2) * (b % 2) + 2 * BitAnd(a \div 2, b \div 2)

RECURSIVE BitOr(_, _)
BitOr(a, b) ==
    IF a = 0 THEN b
    ELSE IF b = 0 THEN a
    ELSE (IF (a % 2) + (b % 2) > 0 THEN 1 ELSE 0) + 2 * BitOr(a \div 2, b \div 2)

\* a << k and a >> k on the unsigned word.
Shl(a, k) == (a * (2 ^ k)) % (2 ^ WordBits)
Shr(a, k) == a \div (2 ^ k)

\* ------------------------------------------------------------- identifier
\* Nano64{value}: an identifier is its unsigned word.
Nano64Values == 0 .. (2 ^ WordBits) - 1

GetTimestamp(value) == BitAnd(Shr(value, timestampShift), timestampMask)

GetRandom(value) == BitAnd(value, randomMask)

Compare(a, b) == IF a < b THEN -1 ELSE IF a > b THEN 1 ELSE 0

\* ---------------------------------------------------------- entropy source
\* What one call rng(RandomBits) can return: a uint32 and no error, or an error.
RngResults ==
    [val : 0 .. (2 ^ RngBits) - 1, err : {FALSE}] \cup [val : {0}, err : {TRUE}]

\* Timestamps a caller may pass (int64): valid ones and some on either side.
Timestamps == (0 - TsSlack) .. (maxTimestamp + TsSlack)

\* ------------------------------------------------------------ call records
NoValue == -1
RngFailed == -2
NoError == "none"

\* The outcome of one call: the operation, the requested timestamp, the error
\* (NoError on success), the identifier returned (NoValue on failure) and the
\* raw value the entropy source returned (NoValue when it was not called,
\* RngFailed when it returned an error).
CallRecord(op, req, err, value, rnd) ==
    [op |-> op, req |-> req, err |-> err, value |-> value, rnd |-> rnd]

NoCall == CallRecord("none", 0, NoError, NoValue, NoValue)

\* ---------------------------------------------------------------- Generate
\* if timestamp > maxTimestamp { return error }  (Generate and GenerateMonotonic)
ExceedsRangeOffByOne(ts) == ts >= maxTimestamp

ExceedsRange(ts) == ts > maxTimestamp

\* Generate(timestamp, rng): the call record for a requested timestamp and the
\* result r of the single rng(RandomBits) call.
GenerateValueUnmasked(ts, r) ==
    LET ms == BitAnd(ToUint64(ts), timestampMask)
    IN  BitOr(Shl(ms, timestampShift), r.val)

GenerateValueSwapped(ts, r) ==
    LET ms == BitAnd(ToUint64(ts), timestampMask)
        rndField == BitAnd(r.val, randomMask)
    IN  BitOr(Shl(rndField, TimestampBits), ms)

GenerateValue(ts, r) ==
    LET ms == BitAnd(ToUint64(ts), timestampMask)
        rndField == BitAnd(r.val, randomMask)
    IN  BitOr(Shl(ms, timestampShift), rndField)

GenerateResult(ts, r) ==
    IF ts < 0 THEN CallRecord("Generate", ts, "negative", NoValue, NoValue)
    ELSE IF ExceedsRange(ts) THEN CallRecord("Generate", ts, "exceeds", NoValue, NoValue)
    ELSE IF r.err THEN CallRecord("Generate", ts, "rng", NoValue, RngFailed)
    ELSE CallRecord("Generate", ts, NoError, GenerateValue(ts, r), r.val)

\* ------------------------------------------------------------------- state
VARIABLES
    lastTimestamp,   \* int64, -1 until the sequencer has issued an identifier
    lastRandom,      \* uint64, the random field most recently issued
    monotonicMutex,  \* sync.Mutex: Free, or the caller holding it
    pc,              \* per caller: where it is inside GenerateMonotonic
    timestamp,       \* per caller: the argument of its call
    t,               \* per caller: the local t
    random,          \* per caller: the local random
    out,             \* record of the call that completed last     (both kept
    prev,            \* record of the call that completed before it  for calls
                     \*                            made one after another)
    issued,          \* identifier returned by the last successful sequencer call
    config,          \* the *EncryptedIDConfig the caller created, or NoConfig
    encrypted,       \* the *EncryptedNano64 the caller holds, or NoEncrypted
    slice            \* the []byte the caller holds, and whether its backing
                     \* array is the one of encrypted.payload

vars == <<lastTimestamp, lastRandom, monotonicMutex, pc, timestamp, t, random,
          out, prev, issued, config, encrypted, slice>>

\* The package-level functions touch no encryption object.
encVars == <<config, encrypted, slice>>

Free == 0
Callers == 1 .. NumCallers

\* ------------------------------------------------------- GenerateMonotonic
\* t := timestamp; if t < lastTimestamp { t = lastTimestamp }
ClampTimeNone(ts, lt) == ts

ClampTime(ts, lt) == IF ts < lt THEN lt ELSE ts

\* random = (lastRandom + 1) & randomMask
NextRandomStuck(lr) == BitAnd(lr, randomMask)

NextRandomSkip(lr) == BitAnd(lr + 2, randomMask)

NextRandom(lr) == BitAnd(lr + 1, randomMask)

\* random = uint64(randVal), without the mask
DrawRandomUnmasked(r) == r.val

\* random = uint64(randVal) & randomMask
DrawRandom(r) == BitAnd(r.val, randomMask)

\* ms := uint64(t) & timestampMask; value := (ms << timestampShift) | random
MonotonicValue(tt, rnd) ==
    BitOr(Shl(BitAnd(ToUint64(tt), timestampMask), timestampShift), rnd)

\* ms := uint64(t) & timestampMask; value := ms << timestampShift
WrapValueSeeded(tt) == Shl(BitAnd(ToUint64(tt), timestampMask), timestampShift) + 1

WrapValue(tt) == Shl(BitAnd(ToUint64(tt), timestampMask), timestampShift)

\* t++; if t > maxTimestamp { return error }: the test, on the incremented t.
OverflowsNever(t1) == FALSE

OverflowsEarly(t1) == t1 >= maxTimestamp

Overflows(t1) == t1 > maxTimestamp

\* What a call leaves behind: its record and the sequencer state after it.
OutcomeRandomUnstored(rec, lt, lr) == [rec |-> rec, lastTimestamp |-> lt, lastRandom |-> 0]

Outcome(rec, lt, lr) == [rec |-> rec, lastTimestamp |-> lt, lastRandom |-> lr]

\* The return on the overflow path (line 243): nothing has been stored yet.
OverflowOutcome(ts, lt, lr) ==
    Outcome(CallRecord("GenerateMonotonic", ts, "overflow", NoValue, NoValue), lt, lr)

\* The return on the entropy-error path (line 255).
RngErrorOutcomeStored(ts, lt, lr) ==
    Outcome(CallRecord("GenerateMonotonic", ts, "rng", NoValue, RngFailed), ts, lr)

\* The entropy error dropped: the call goes on with a zero draw.
RngErrorIgnored(ts, lt, lr) ==
    [rec |-> CallRecord("GenerateMonotonic", ts, NoError, MonotonicValue(ts, 0), RngFailed),
     lastTimestamp |-> ts, lastRandom |-> 0]

RngErrorOutcome(ts, lt, lr) ==
    Outcome(CallRecord("GenerateMonotonic", ts, "rng", NoValue, RngFailed), lt, lr)

\* The returns of the range checks (lines 215-220), before the mutex is taken.
RangeOutcome(ts, lt, lr) ==
    Outcome(CallRecord("GenerateMonotonic", ts,
                       IF ts < 0 THEN "negative" ELSE "exceeds", NoValue, NoValue),
            lt, lr)

\* The critical section (lines 229-265) run from the state (lt, lr) with the
\* argument ts; r is what rng(RandomBits) returns if it is called.
MonotonicSection(lt, lr, ts, r) ==
    LET t0 == ClampTime(ts, lt) IN
    IF t0 = lt
    THEN LET rnd == NextRandom(lr) IN
         IF rnd = 0
         THEN LET t1 == t0 + 1 IN
              IF Overflows(t1)
              THEN OverflowOutcome(ts, lt, lr)
              ELSE Outcome(CallRecord("GenerateMonotonic", ts, NoError,
                                      WrapValue(t1), NoValue),
                           t1, 0)
         ELSE Outcome(CallRecord("GenerateMonotonic", ts, NoError,
                                 MonotonicValue(t0, rnd), NoValue),
                      t0, rnd)
    ELSE IF r.err
         THEN RngErrorOutcome(ts, lt, lr)
         ELSE LET rnd == DrawRandom(r) IN
              Outcome(CallRecord("GenerateMonotonic", ts, NoError,
                                 MonotonicValue(t0, rnd), r.val),
                      t0, rnd)

\* GenerateMonotonic(timestamp, rng) as one uncontended call.
MonotonicResult(lt, lr, ts, r) ==
    IF ts < 0 \/ ExceedsRange(ts)
    THEN RangeOutcome(ts, lt, lr)
    ELSE MonotonicSection(lt, lr, ts, r)

\* A call completes: its record becomes out, the one before becomes prev.
Complete(rec) ==
    /\ out' = rec
    /\ prev' = out
    /\ issued' = IF rec.op = "GenerateMonotonic" /\ rec.err = NoError
                 THEN rec.value ELSE issued
    /\ UNCHANGED encVars

\* The whole of GenerateMonotonic, called while no other call is in progress.
GenerateMonotonic(ts, r) ==
    /\ monotonicMutex = Free
    /\ \A p \in Callers : pc[p] = "idle"
    /\ \E res \in {MonotonicResult(lastTimestamp, lastRandom, ts, r)} :
       /\ lastTimestamp' = res.lastTimestamp
       /\ lastRandom' = res.lastRandom
       /\ Complete(res.rec)
    /\ UNCHANGED <<monotonicMutex, pc, timestamp, t, random>>

\* Generate leaving its timestamp in the sequencer's lastTimestamp.
GenerateStoring(ts, r) ==
    /\ Complete(GenerateResult(ts, r))
    /\ lastTimestamp' = IF ts \in 0 .. maxTimestamp THEN ts ELSE lastTimestamp
    /\ UNCHANGED <<lastRandom, monotonicMutex, pc, timestamp, t, random>>

\* Generate(timestamp, rng): uses no state of the package.
Generate(ts, r) ==
    /\ Complete(GenerateResult(ts, r))
    /\ UNCHANGED <<lastTimestamp, lastRandom, monotonicMutex, pc, timestamp, t,
                   random>>

\* ------------------------------------- GenerateMonotonic, statement by statement
\* The same function as its callers run it concurrently: each access to
\* lastTimestamp / lastRandom is a step of its own, ordered only by the mutex.

\* monotonicMutex.Lock() returns only when no caller holds the mutex.
MutexAlwaysAvailable(m) == TRUE

MutexAvailable(m) == m = Free

\* The function returns: locals die, the caller receives rec.value and rec.err.
Return(p, rec) ==
    /\ pc' = [pc EXCEPT ![p] = "idle"]
    /\ timestamp' = [timestamp EXCEPT ![p] = 0]
    /\ t' = [t EXCEPT ![p] = 0]
    /\ random' = [random EXCEPT ![p] = 0]
    /\ issued' = IF rec.err = NoError THEN rec.value ELSE issued
    /\ UNCHANGED <<out, prev>>
    /\ UNCHANGED encVars

\* The return without the deferred Unlock.
UnlockSkipped == UNCHANGED monotonicMutex

\* defer monotonicMutex.Unlock()
Unlock == monotonicMutex' = Free

Goto(p, label) ==
    /\ pc' = [pc EXCEPT ![p] = label]
    /\ UNCHANGED <<out, prev, issued>>
    /\ UNCHANGED encVars

\* Lines 214-224: entry and the two range checks.
Call(p, ts) ==
    /\ pc[p] = "idle"
    /\ IF ts < 0 \/ ExceedsRange(ts)
       THEN /\ Return(p, RangeOutcome(ts, lastTimestamp, lastRandom).rec)
       ELSE /\ Goto(p, "lock")
            /\ timestamp' = [timestamp EXCEPT ![p] = ts]
            /\ UNCHANGED <<t, random>>
    /\ UNCHANGED <<lastTimestamp, lastRandom, monotonicMutex>>

\* Line 226: monotonicMutex.Lock()
Lock(p) ==
    /\ pc[p] = "lock"
    /\ MutexAvailable(monotonicMutex)
    /\ monotonicMutex' = p
    /\ Goto(p, "clamp")
    /\ UNCHANGED <<lastTimestamp, lastRandom, timestamp, t, random>>

\* Lines 230-233: t := timestamp, clamped to lastTimestamp.
Clamp(p) ==
    /\ pc[p] = "clamp"
    /\ t' = [t EXCEPT ![p] = ClampTime(timestamp[p], lastTimestamp)]
    /\ Goto(p, "branch")
    /\ UNCHANGED <<lastTimestamp, lastRandom, monotonicMutex, timestamp, random>>

\* Lines 236-239: same millisecond, the random field is incremented.
Increment(p) ==
    /\ pc[p] = "branch"
    /\ t[p] = lastTimestamp
    /\ random' = [random EXCEPT ![p] = NextRandom(lastRandom)]
    /\ Goto(p, IF NextRandom(lastRandom) = 0 THEN "bump" ELSE "storeTimestamp")
    /\ UNCHANGED <<lastTimestamp, lastRandom, monotonicMutex, timestamp, t>>

\* Lines 251-258: a newer millisecond, the random field comes from rng.
Draw(p, r) ==
    /\ pc[p] = "branch"
    /\ t[p] # lastTimestamp
    /\ IF r.err
       THEN /\ Return(p, RngErrorOutcome(timestamp[p], lastTimestamp, lastRandom).rec)
            /\ Unlock
       ELSE /\ random' = [random EXCEPT ![p] = DrawRandom(r)]
            /\ Goto(p, "storeTimestamp")
            /\ UNCHANGED <<monotonicMutex, timestamp, t>>
    /\ UNCHANGED <<lastTimestamp, lastRandom>>

\* Lines 241-244: the per-millisecond space is exhausted, t++ and the overflow check.
Bump(p) ==
    /\ pc[p] = "bump"
    /\ IF Overflows(t[p] + 1)
       THEN /\ Return(p, OverflowOutcome(timestamp[p], lastTimestamp, lastRandom).rec)
            /\ Unlock
       ELSE /\ t' = [t EXCEPT ![p] = t[p] + 1]
            /\ Goto(p, "wrapTimestamp")
            /\ UNCHANGED <<monotonicMutex, timestamp, random>>
    /\ UNCHANGED <<lastTimestamp, lastRandom>>

\* Line 245: lastTimestamp = t
WrapStoreTimestamp(p) ==
    /\ pc[p] = "wrapTimestamp"
    /\ lastTimestamp' = t[p]
    /\ Goto(p, "wrapRandom")
    /\ UNCHANGED <<lastRandom, monotonicMutex, timestamp, t, random>>

\* Lines 246-249: lastRandom = 0 and the return of ms << timestampShift.
WrapStoreRandom(p) ==
    /\ pc[p] = "wrapRandom"
    /\ lastRandom' = 0
    /\ Return(p, CallRecord("GenerateMonotonic", timestamp[p], NoError,
                            WrapValue(t[p]), NoValue))
    /\ Unlock
    /\ UNCHANGED lastTimestamp

\* Line 260: lastTimestamp = t
StoreTimestamp(p) ==
    /\ pc[p] = "storeTimestamp"
    /\ lastTimestamp' = t[p]
    /\ Goto(p, "storeRandom")
    /\ UNCHANGED <<lastRandom, monotonicMutex, timestamp, t, random>>

\* Lines 261-265: lastRandom = random and the return of the packed value.
StoreRandom(p) ==
    /\ pc[p] = "storeRandom"
    /\ lastRandom' = random[p]
    /\ Return(p, CallRecord("GenerateMonotonic", timestamp[p], NoError,
                            MonotonicValue(t[p], random[p]), NoValue))
    /\ Unlock
    /\ UNCHANGED lastTimestamp

\* ----------------------------------------------------------- specifications
Idle == [p \in Callers |-> "idle"]
NoConfig == [gcm |-> <<>>]
NoEncrypted == [ID |-> NoValue, payload |-> <<>>]
NoSlice == [bytes |-> <<>>, shared |-> FALSE]
Zeroes == [p \in Callers |-> 0]

\* var lastTimestamp int64 = -1; var lastRandom uint64; var monotonicMutex sync.Mutex
Init ==
    /\ lastTimestamp = -1
    /\ lastRandom = 0
    /\ monotonicMutex = Free
    /\ pc = Idle
    /\ timestamp = Zeroes
    /\ t = Zeroes
    /\ random = Zeroes
    /\ out = NoCall
    /\ prev = NoCall
    /\ issued = NoValue
    /\ config = NoConfig
    /\ encrypted = NoEncrypted
    /\ slice = NoSlice

\* Calls of the sequencer made one after another.
NextSeq == \E ts \in Timestamps, r \in RngResults : GenerateMonotonic(ts, r)

SpecSeq == Init /\ [][NextSeq]_vars

\* Calls of the plain generator.
NextGen == \E ts \in Timestamps, r \in RngResults : Generate(ts, r)

SpecGen == Init /\ [][NextGen]_vars

\* Calls of the sequencer made concurrently by NumCallers callers.
NextConc ==
    \E p \in Callers :
        \/ \E ts \in Timestamps : Call(p, ts)
        \/ Lock(p)
        \/ Clamp(p)
        \/ Increment(p)
        \/ \E r \in RngResults : Draw(p, r)
        \/ Bump(p)
        \/ WrapStoreTimestamp(p)
        \/ WrapStoreRandom(p)
        \/ StoreTimestamp(p)
        \/ StoreRandom(p)

SpecConc == Init /\ [][NextConc]_vars

\* ------------------------------------------------------------------ claims
IsMonotonic(rec) == rec.op = "GenerateMonotonic"
IsGenerate(rec) == rec.op = "Generate"
Succeeded(rec) == rec.op # "none" /\ rec.err = NoError
Failed(rec) == rec.op # "none" /\ rec.err # NoError

\* A caller is between monotonicMutex.Lock() and the deferred Unlock().
InSection(p) ==
    pc[p] \in {"clamp", "branch", "bump", "wrapTimestamp", "wrapRandom",
               "storeTimestamp", "storeRandom"}

\* The step is the successful return of caller p.
SuccessReturn(p) ==
    /\ pc[p] \in {"wrapRandom", "storeRandom"}
    /\ pc'[p] = "idle"

\* C1: in any sequence of GenerateMonotonic calls made one after another, with
\* arbitrary requested timestamps and entropy draws, every successful call
\* returns a value strictly greater than the one the successful call before it
\* returned.
C1_StrictlyIncreasing ==
    [][(Succeeded(out') /\ issued # NoValue) => out'.value > issued]_vars

\* C1 witness: two successful calls in a row, the second requesting an earlier
\* timestamp than the first, and the second value is the larger.
C1_Witness ==
    /\ IsMonotonic(prev) /\ Succeeded(prev)
    /\ IsMonotonic(out) /\ Succeeded(out)
    /\ out.req < prev.req
    /\ out.value > prev.value

\* C2: with concurrent callers, at most one caller is inside the section
\* between Lock and Unlock and it is the holder of monotonicMutex, and every
\* successful return (made while still holding the mutex, so in the order of
\* acquisition) yields a value strictly greater than every value returned
\* before it; returned values are therefore pairwise distinct.
C2_ConcurrentStrictlyIncreasing ==
    /\ [](\A p \in Callers : InSection(p) =>
            /\ monotonicMutex = p
            /\ \A q \in Callers : InSection(q) => q = p)
    /\ [][\A p \in Callers :
            (SuccessReturn(p) /\ issued # NoValue) => issued' > issued]_vars

\* C2 witness: one caller is about to return its value while holding the
\* mutex, another caller waits at Lock, and an identifier was issued before.
C2_Witness ==
    \E p, q \in Callers :
        /\ p # q
        /\ pc[p] = "storeRandom"
        /\ monotonicMutex = p
        /\ pc[q] = "lock"
        /\ issued # NoValue

\* C3: a GenerateMonotonic call that fails (range, entropy or overflow error)
\* leaves lastTimestamp and lastRandom exactly as they were before the call.
C3_FailureLeavesState ==
    [][Failed(out') => (lastTimestamp' = lastTimestamp /\ lastRandom' = lastRandom)]_vars

\* C3 witness: an entropy error reported right after a successful call, with
\* the state still holding what that successful call stored.
C3_Witness ==
    /\ IsMonotonic(prev) /\ Succeeded(prev)
    /\ IsMonotonic(out) /\ out.err = "rng"
    /\ lastTimestamp = GetTimestamp(prev.value)
    /\ lastRandom = GetRandom(prev.value)

\* C4: from lastTimestamp = maxTimestamp and lastRandom = randomMask, a call
\* requesting maxTimestamp fails with the overflow error and returns no identifier.
C4_OverflowAtEnd ==
    [][(lastTimestamp = maxTimestamp /\ lastRandom = randomMask
            /\ out'.req = maxTimestamp)
        => (out'.err = "overflow" /\ out'.value = NoValue)]_vars

\* C4 witness: the overflow error has been reported for a request of
\* maxTimestamp in the exhausted state.
C4_Witness ==
    /\ lastTimestamp = maxTimestamp
    /\ lastRandom = randomMask
    /\ IsMonotonic(out) /\ out.err = "overflow" /\ out.req = maxTimestamp
    /\ Succeeded(prev)

\* C5: the timestamp of a successful call's result is max(requested,
\* lastTimestamp before the call), and one more than that exactly when the
\* random field wrapped; it is never below lastTimestamp before the call.
C5_ResultTimestamp ==
    [][Succeeded(out') =>
        LET m == IF out'.req > lastTimestamp THEN out'.req ELSE lastTimestamp
            wrapped == out'.req <= lastTimestamp /\ lastRandom = randomMask
            ts == out'.value \div (2 ^ RandomBits)
        IN  /\ ts = (IF wrapped THEN m + 1 ELSE m)
            /\ ts >= lastTimestamp]_vars

\* C5 witness: a successful call that requested a timestamp below the one of
\* the identifier issued before it, and whose result carries that timestamp.
C5_Witness ==
    /\ IsMonotonic(prev) /\ Succeeded(prev)
    /\ IsMonotonic(out) /\ Succeeded(out)
    /\ out.req < GetTimestamp(prev.value)
    /\ GetTimestamp(out.value) = GetTimestamp(prev.value)

\* The first of two consecutive calls requested a timestamp newer than the
\* state (so it drew entropy) and succeeded; the second requested the same.
SameTimestampTwice ==
    /\ IsMonotonic(prev) /\ Succeeded(prev) /\ prev.rnd >= 0
    /\ IsMonotonic(out) /\ out.req = prev.req

SecondIsIncrement ==
    /\ Succeeded(out)
    /\ prev.value < out.value
    /\ prev.value \div (2 ^ RandomBits) = prev.req
    /\ out.value \div (2 ^ RandomBits) = prev.req
    /\ out.value % (2 ^ RandomBits) = (prev.value % (2 ^ RandomBits)) + 1

\* C6 as stated: for any timestamp newer than the state and ANY entropy draw,
\* two consecutive calls requesting it return id1 < id2 with that timestamp
\* and id2.random = id1.random + 1.
C6_Original == SameTimestampTwice => SecondIsIncrement

\* C6 amended: the same, for every entropy draw whose random field
\* (draw & randomMask) is not randomMask.
C6_SameTimestampIncrement ==
    (SameTimestampTwice /\ (prev.rnd % (2 ^ RandomBits)) # randomMask)
        => SecondIsIncrement

\* C6 witness: the two calls happened, the draw was above the field width and
\* the second identifier is the first plus one in the random field.
C6_Witness ==
    /\ SameTimestampTwice
    /\ prev.rnd > randomMask
    /\ SecondIsIncrement

\* Some later call with a valid timestamp and a non-failing entropy source
\* succeeds from the current state.
Usable ==
    \E ts \in 0 .. maxTimestamp :
        \E r \in RngResults :
            /\ ~r.err
            /\ Succeeded(MonotonicResult(lastTimestamp, lastRandom, ts, r).rec)

Exhausted == lastTimestamp = maxTimestamp /\ lastRandom = randomMask

\* C7 as stated: after any error of GenerateMonotonic the sequencer is usable.
C7_Original == (IsMonotonic(out) /\ Failed(out)) => Usable

\* C7 amended: after an error of GenerateMonotonic the sequencer is usable
\* exactly when its state is not (maxTimestamp, randomMask); the overflow
\* error is reported only from that state, which it leaves in place.
C7_UsableUnlessExhausted ==
    (IsMonotonic(out) /\ Failed(out)) =>
        /\ Usable <=> ~Exhausted
        /\ out.err = "overflow" => Exhausted

\* C7 witness: an entropy error was reported after the sequencer had issued
\* identifiers, and a later call can still succeed.
C7_Witness ==
    /\ IsMonotonic(out) /\ out.err = "rng"
    /\ issued # NoValue
    /\ Usable

\* C8: Generate fails exactly when the timestamp is negative, exceeds
\* maxTimestamp, or the entropy source reports an error; every timestamp in
\* [0, maxTimestamp] succeeds with a non-failing entropy source.
C8_GenerateFailsExactly ==
    IsGenerate(out) =>
        /\ Failed(out) <=>
            (out.req < 0 \/ out.req > maxTimestamp \/ out.rnd = RngFailed)
        /\ Succeeded(out) => out.value \in Nano64Values
        /\ (out.req >= 0 /\ out.req <= maxTimestamp) => out.rnd # NoValue

\* C8 witness: Generate succeeded for timestamp 0 and then for maxTimestamp.
C8_Witness ==
    /\ IsGenerate(prev) /\ Succeeded(prev) /\ prev.req = 0
    /\ IsGenerate(out) /\ Succeeded(out) /\ out.req = maxTimestamp

\* C9: for a valid timestamp ts and an entropy value r, Generate returns
\* ts * 2^RandomBits + (r mod 2^RandomBits); GetTimestamp gives back ts and
\* GetRandom gives back r mod 2^RandomBits.
C9_GenerateValue ==
    (IsGenerate(out) /\ Succeeded(out)) =>
        /\ out.value = out.req * (2 ^ RandomBits) + (out.rnd % (2 ^ RandomBits))
        /\ GetTimestamp(out.value) = out.req
        /\ GetRandom(out.value) = out.rnd % (2 ^ RandomBits)

\* C9 witness: Generate succeeded with an entropy value wider than the
\* random field and a non-zero timestamp.
C9_Witness ==
    /\ IsGenerate(out) /\ Succeeded(out)
    /\ out.rnd > randomMask
    /\ out.req > 0

\* C10: of two identifiers produced by Generate, the one with the smaller
\* timestamp has the smaller value, whatever the random fields are, and
\* Compare reports -1 for it.
C10_TimestampOrder ==
    (IsGenerate(prev) /\ Succeeded(prev) /\ IsGenerate(out) /\ Succeeded(out)) =>
        /\ prev.req < out.req => (prev.value < out.value /\ Compare(prev.value, out.value) = -1)
        /\ out.req < prev.req => (out.value < prev.value /\ Compare(out.value, prev.value) = -1)

\* C10 witness: two generated identifiers, the earlier timestamp carrying the
\* larger random field.
C10_Witness ==
    /\ IsGenerate(prev) /\ Succeeded(prev)
    /\ IsGenerate(out) /\ Succeeded(out)
    /\ prev.req < out.req
    /\ GetRandom(prev.value) > GetRandom(out.value)

\* =================================================================== codec
\* Bytes and hexadecimal text.  A byte is 8 bits and a text is a sequence of
\* one-character strings, as in the source; the word the codec encodes
\* (uint64, 8 bytes in the source) is NumBytes bytes wide.  Identifiers
\* (Nano64Values) are the words below 2^WordBits.

\* ------------------------------------------------------------------ bounds
\* Number of bytes of the encoded word (8 in the source).
ModelBytes == 2
\* Longest text handed to the parsers.
MaxTextLen == 6

\* --------------------------------------------------------------- constants
NumBytes == ModelBytes
\* Width of "%016X": two hexadecimal digits per byte.
HexLen == 2 * NumBytes
\* const split = 11 // ceil(44 / 4)
HexSplit == (TimestampBits + 3) \div 4

Uint64Values == 0 .. (256 ^ NumBytes) - 1

UpperHex == <<"0", "1", "2", "3", "4", "5", "6", "7", "8", "9",
              "A", "B", "C", "D", "E", "F">>
LowerHex == <<"0", "1", "2", "3", "4", "5", "6", "7", "8", "9",
              "a", "b", "c", "d", "e", "f">>

\* (r >= '0' && r <= '9') || (r >= 'a' && r <= 'f') || (r >= 'A' && r <= 'F')
IsHexChar(c) ==
    \E i \in 1 .. 16 : UpperHex[i] = c \/ LowerHex[i] = c

\* The value of a hexadecimal digit (encoding/hex: fromHexChar).
HexCharValue(c) ==
    (CHOOSE i \in 1 .. 16 : UpperHex[i] = c \/ LowerHex[i] = c) - 1

\* A result of a parser: the error ("none" on success) and the value.
Parsed(err, value) == [err |-> err, value |-> value]

\* ------------------------------------------------------------ BigIntHelpers
\* binary.BigEndian.PutUint64: the most significant byte first.
RECURSIVE PutLittleEndian(_, _)
PutLittleEndian(value, n) ==
    IF n = 0 THEN <<>>
    ELSE <<value % 256>> \o PutLittleEndian(value \div 256, n - 1)

RECURSIVE PutBigEndian(_, _)
PutBigEndian(value, n) ==
    IF n = 0 THEN <<>>
    ELSE Append(PutBigEndian(value \div 256, n - 1), value % 256)

\* BigIntHelpers.ToBytesBE(value)
ToBytesLE(value) == PutLittleEndian(value, NumBytes)

ToBytesBE(value) == PutBigEndian(value, NumBytes)

\* binary.BigEndian.Uint64
RECURSIVE BigEndianValue(_)
BigEndianValue(bytes) ==
    IF bytes = <<>> THEN 0
    ELSE BigEndianValue(SubSeq(bytes, 1, Len(bytes) - 1)) * 256 + bytes[Len(bytes)]

\* if len(bytes) != 8 { return error }
WrongLengthShortOnly(bytes) == Len(bytes) < NumBytes

WrongLength(bytes) == Len(bytes) # NumBytes

\* BigIntHelpers.FromBytesBE(bytes)
FromBytesBE(bytes) ==
    IF WrongLength(bytes) THEN Parsed("length", NoValue)
    ELSE Parsed(NoError, BigEndianValue(bytes))

\* --------------------------------------------------------------------- Hex
\* hex.EncodeToString followed by strings.ToUpper
RECURSIVE HexFromBytes(_)
HexFromBytes(bytes) ==
    IF bytes = <<>> THEN <<>>
    ELSE <<UpperHex[(bytes[1] \div 16) + 1], UpperHex[(bytes[1] % 16) + 1]>>
         \o HexFromBytes(Tail(bytes))

\* strings.HasPrefix(h, "0x") || strings.HasPrefix(h, "0X")
HasHexPrefixLowerOnly(h) == Len(h) >= 2 /\ h[1] = "0" /\ h[2] = "x"

HasHexPrefix(h) == Len(h) >= 2 /\ h[1] = "0" /\ h[2] \in {"x", "X"}

StripHexPrefix(h) == IF HasHexPrefix(h) THEN SubSeq(h, 3, Len(h)) ELSE h

\* hex.DecodeString on validated text of even length
RECURSIVE DecodeHex(_)
DecodeHex(h) ==
    IF Len(h) < 2 THEN <<>>
    ELSE <<HexCharValue(h[1]) * 16 + HexCharValue(h[2])>>
         \o DecodeHex(SubSeq(h, 3, Len(h)))

\* Hex.ToBytes(hexStr): the error and the bytes.
HexToBytes(hexStr) ==
    LET h == StripHexPrefix(hexStr) IN
    IF Len(h) % 2 # 0 THEN Parsed("odd", <<>>)
    ELSE IF \E i \in 1 .. Len(h) : ~IsHexChar(h[i]) THEN Parsed("nonhex", <<>>)
    ELSE Parsed(NoError, DecodeHex(h))

\* ------------------------------------------------------------ Nano64 codec
\* fmt.Sprintf("%016X", n.value)
RECURSIVE FormatHexReversed(_, _)
FormatHexReversed(value, n) ==
    IF n = 0 THEN <<>>
    ELSE <<UpperHex[(value % 16) + 1]>> \o FormatHexReversed(value \div 16, n - 1)

RECURSIVE FormatHex(_, _)
FormatHex(value, n) ==
    IF n = 0 THEN <<>>
    ELSE Append(FormatHex(value \div 16, n - 1), UpperHex[(value % 16) + 1])

\* Nano64.ToHex
ToHex(value) ==
    LET full == FormatHex(value, HexLen) IN
    SubSeq(full, 1, HexSplit) \o <<"-">> \o SubSeq(full, HexSplit + 1, HexLen)

\* Nano64.ToBytes
ToBytes(value) == ToBytesBE(value)

\* strings.ReplaceAll(hexStr, "-", "")
RemoveDashes(hexStr) == SelectSeq(hexStr, LAMBDA c : c # "-")

\* FromHex(hexStr)
FromHex(hexStr) ==
    LET clean == StripHexPrefix(RemoveDashes(hexStr)) IN
    IF Len(clean) # HexLen THEN Parsed("length", NoValue)
    ELSE LET decoded == HexToBytes(clean) IN
         IF decoded.err # NoError THEN Parsed("hex", NoValue)
         ELSE IF Len(decoded.value) # NumBytes THEN Parsed("decoded length", NoValue)
         ELSE LET parsed == FromBytesBE(decoded.value) IN
              IF parsed.err # NoError THEN Parsed("bytes", NoValue)
              ELSE Parsed(NoError, parsed.value)

\* FromBytes(bytes)
FromBytes(bytes) ==
    LET parsed == FromBytesBE(bytes) IN
    IF parsed.err # NoError THEN Parsed("bytes", NoValue)
    ELSE Parsed(NoError, parsed.value)

\* Nano64.Equals
EqualsByTimestamp(a, b) == GetTimestamp(a) = GetTimestamp(b)

Equals(a, b) == Compare(a, b) = 0

\* ------------------------------------------------------------ codec calls
\* The record of a codec call: the function, its argument, the error and
\* the result.
CodecRecord(op, arg, err, res) == [op |-> op, arg |-> arg, err |-> err, res |-> res]

\* Inputs.  Bytes and characters are drawn from samples that hold the cases
\* of the code: both ends of the byte range, the sign bit, both cases of a
\* hexadecimal letter, both prefixes, the separator and a non-hex character.
ByteSamples == {0, 1, 127, 128, 255}
HexAlphabet == {"0", "a", "A", "x", "X", "-", "g"}

ByteStrings == UNION {[1 .. n -> ByteSamples] : n \in 0 .. NumBytes + 1}
HexTexts == UNION {[1 .. n -> HexAlphabet] : n \in 0 .. MaxTextLen}
Uint64Samples ==
    Nano64Values \cup {BigEndianValue(b) : b \in [1 .. NumBytes -> ByteSamples]}

\* The codec keeps no state: a behaviour is one call, or an encoding
\* followed by the decoding of its output.
Fresh == out.op = "none"

Record(rec) ==
    /\ out' = rec
    /\ prev' = out
    /\ UNCHANGED <<lastTimestamp, lastRandom, monotonicMutex, pc, timestamp, t,
                   random, issued>>
    /\ UNCHANGED encVars

ToHexCall(v) == Record(CodecRecord("ToHex", v, NoError, ToHex(v)))

ToBytesCall(v) == Record(CodecRecord("ToBytes", v, NoError, ToBytes(v)))

FromHexCall(text) ==
    LET r == FromHex(text) IN Record(CodecRecord("FromHex", text, r.err, r.value))

FromBytesCall(bytes) ==
    LET r == FromBytes(bytes) IN Record(CodecRecord("FromBytes", bytes, r.err, r.value))

FromBytesBECall(bytes) ==
    LET r == FromBytesBE(bytes) IN
    Record(CodecRecord("FromBytesBE", bytes, r.err, r.value))

CompareCall(a, b) ==
    Record(CodecRecord("Compare", <<a, b>>, NoError, <<Compare(a, b), Equals(a, b)>>))

NextCodec ==
    \/ Fresh /\ \E v \in Uint64Samples : ToHexCall(v)
    \/ Fresh /\ \E v \in Uint64Samples : ToBytesCall(v)
    \/ Fresh /\ \E text \in HexTexts : FromHexCall(text)
    \/ out.op = "ToHex" /\ FromHexCall(out.res)
    \/ Fresh /\ \E bytes \in ByteStrings : FromBytesCall(bytes)
    \/ out.op = "ToBytes" /\ FromBytesCall(out.res)
    \/ Fresh /\ \E bytes \in ByteStrings : FromBytesBECall(bytes)
    \/ Fresh /\ \E a, b \in Uint64Samples : CompareCall(a, b)

SpecCodec == Init /\ [][NextCodec]_vars

\* ------------------------------------------------------------ codec claims
CodecOk(rec) == rec.err = NoError

\* The call recorded in out decoded what the call recorded in prev encoded.
Decodes(encoder, decoder) ==
    /\ prev.op = encoder
    /\ out.op = decoder
    /\ out.arg = prev.res

\* C11: for every word v, FromBytes(New(v).ToBytes()) and
\* FromHex(New(v).ToHex()) succeed and return v.
C11_RoundTrip ==
    /\ Decodes("ToBytes", "FromBytes") => (CodecOk(out) /\ out.res = prev.arg)
    /\ Decodes("ToHex", "FromHex") => (CodecOk(out) /\ out.res = prev.arg)

\* C11 witness: a word with a non-zero high byte and a low byte below 16 came
\* back from the dashed hexadecimal form.
C11_Witness ==
    /\ Decodes("ToHex", "FromHex")
    /\ prev.arg >= 256
    /\ prev.arg % 256 < 16
    /\ out.res = prev.arg

\* The text left after removing every "-" and then one leading 0x or 0X.
Remaining(text) ==
    LET nodash == SelectSeq(text, LAMBDA c : c # "-") IN
    IF Len(nodash) >= 2 /\ (SubSeq(nodash, 1, 2) = <<"0", "x">>
                            \/ SubSeq(nodash, 1, 2) = <<"0", "X">>)
    THEN SubSeq(nodash, 3, Len(nodash))
    ELSE nodash

HexCharacters ==
    {"0", "1", "2", "3", "4", "5", "6", "7", "8", "9",
     "a", "b", "c", "d", "e", "f", "A", "B", "C", "D", "E", "F"}

\* The number a text of hexadecimal digits denotes.
RECURSIVE HexNumber(_)
HexNumber(digits) ==
    IF digits = <<>> THEN 0
    ELSE 16 * HexNumber(SubSeq(digits, 1, Len(digits) - 1))
         + HexCharValue(digits[Len(digits)])

\* C12: FromHex succeeds exactly when, after removing the dashes and one
\* optional 0x / 0X prefix, the remaining text is HexLen hexadecimal
\* characters of either case; it then returns the number the text denotes,
\* and every other input fails.
C12_FromHexAccepts ==
    out.op = "FromHex" =>
        LET rest == Remaining(out.arg)
            wellFormed == /\ Len(rest) = HexLen
                          /\ \A i \in 1 .. Len(rest) : rest[i] \in HexCharacters
        IN  /\ CodecOk(out) <=> wellFormed
            /\ CodecOk(out) => out.res = HexNumber(rest)
            /\ ~CodecOk(out) => out.res = NoValue

\* C12 witness: a text with an upper-case prefix and digits of both cases
\* was accepted and denotes a number above one byte.
C12_Witness ==
    /\ out.op = "FromHex" /\ prev.op = "none"
    /\ CodecOk(out)
    /\ \E j, k \in 1 .. Len(out.arg) : out.arg[j] = "a" /\ out.arg[k] = "A"
    /\ out.arg[2] = "X"
    /\ out.res >= 256

\* C13: FromBytes and BigIntHelpers.FromBytesBE fail for every input whose
\* length is not NumBytes, the empty input included, and succeed for every
\* input of NumBytes bytes.
C13_FromBytesLength ==
    out.op \in {"FromBytes", "FromBytesBE"} =>
        /\ CodecOk(out) <=> Len(out.arg) = NumBytes
        /\ ~CodecOk(out) => out.res = NoValue
        /\ CodecOk(out) => out.res \in Uint64Values

\* C13 witness: an input one byte too long was rejected by FromBytes.
C13_Witness ==
    /\ out.op = "FromBytes"
    /\ Len(out.arg) = NumBytes + 1
    /\ ~CodecOk(out)

\* Lexicographic order of two sequences of numbers of the same length.
RECURSIVE LexLess(_, _)
LexLess(x, y) ==
    IF x = <<>> \/ y = <<>> THEN FALSE
    ELSE \/ x[1] < y[1]
         \/ x[1] = y[1] /\ LexLess(Tail(x), Tail(y))

Sign(less, greater) == IF less THEN -1 ELSE IF greater THEN 1 ELSE 0

\* C14: Compare(a, b) is -1, 0 or 1 according to the unsigned order of the
\* values; that order is the lexicographic order of the big-endian bytes
\* and, for identifiers, of the (timestamp, random) pairs; Equals holds
\* exactly when Compare is 0.
C14_CompareOrder ==
    out.op = "Compare" =>
        LET a == out.arg[1]
            b == out.arg[2]
            c == out.res[1]
            fields(v) == <<v \div (2 ^ RandomBits), v % (2 ^ RandomBits)>>
        IN  /\ c = Sign(a < b, a > b)
            /\ c = Sign(LexLess(ToBytes(a), ToBytes(b)), LexLess(ToBytes(b), ToBytes(a)))
            /\ (a \in Nano64Values /\ b \in Nano64Values) =>
                 /\ c = Sign(LexLess(fields(a), fields(b)), LexLess(fields(b), fields(a)))
                 /\ fields(a) = <<GetTimestamp(a), GetRandom(a)>>
            /\ out.res[2] <=> (c = 0)

\* C14 witness: two words were compared of which the smaller has the larger
\* low byte.
C14_Witness ==
    /\ out.op = "Compare"
    /\ out.arg[1] < out.arg[2]
    /\ out.arg[1] % 256 > out.arg[2] % 256
    /\ out.res[1] = -1

\* =========================================================== encrypted.go
\* The payload is IV || ciphertext || tag.  The IV and the tag keep the widths
\* of the source; the ciphertext is as wide as the encoded word (NumBytes).
IVLength == 12
TagLength == 16
PayloadLength == IVLength + NumBytes + TagLength

MaxKeyLen == 33

BitXor(a, b) == a + b - 2 * BitAnd(a, b)

\* crypto/aes and crypto/cipher are not part of the repository.  They are
\* modelled as an ideal authenticated cipher: under one key the tag is an
\* injective function of the nonce and the ciphertext, so Open accepts exactly
\* what Seal produced.  (The nonce and the ciphertext together are at most
\* TagLength bytes for the word widths modelled.)
AESKeySizes == {16, 24, 32}

RECURSIVE SumBytes(_)
SumBytes(bytes) == IF bytes = <<>> THEN 0 ELSE Head(bytes) + SumBytes(Tail(bytes))

KeyStream(key, iv, i) ==
    (31 * SumBytes(key) + 17 * SumBytes(iv) + 7 * i + Len(key)) % 256

Crypt(key, iv, data) ==
    [i \in 1 .. Len(data) |-> BitXor(data[i], KeyStream(key, iv, i))]

Pad(data, n) == data \o [i \in 1 .. n - Len(data) |-> 0]

TagWithoutNonce(key, iv, ct) == Crypt(key, <<>>, Pad(ct, TagLength))

Tag(key, iv, ct) == Crypt(key, <<>>, Pad(iv \o ct, TagLength))

\* c.gcm.Seal(nil, iv, plaintext, nil)
Seal(key, iv, plaintext) ==
    LET ct == Crypt(key, iv, plaintext) IN ct \o Tag(key, iv, ct)

\* c.gcm.Open(nil, iv, ciphertext, nil)
Open(key, iv, sealed) ==
    IF Len(sealed) < TagLength THEN Parsed("auth", <<>>)
    ELSE LET n == Len(sealed) - TagLength
             ct == SubSeq(sealed, 1, n)
             tag == SubSeq(sealed, n + 1, Len(sealed))
         IN IF tag # Tag(key, iv, ct) THEN Parsed("auth", <<>>)
            ELSE Parsed(NoError, Crypt(key, iv, ct))

\* The result of a call that returns (*EncryptedNano64, error).
EncResult(err, id, payload) == [err |-> err, ID |-> id, payload |-> payload]
EncFailure(err) == EncResult(err, NoValue, <<>>)

\* aes.NewCipher(aesKey) returns an error.
KeySizeErrorBelowOnly(aesKey) == Len(aesKey) < 16

KeySizeError(aesKey) == Len(aesKey) \notin AESKeySizes

\* NewEncryptedIDConfig(aesKey, clock, rng): the error and the context.  The
\* clock and the rng of the context are inputs of the calls that use them.
NewEncryptedIDConfig(aesKey) ==
    IF KeySizeError(aesKey) THEN [err |-> "key", config |-> NoConfig]
    ELSE [err |-> NoError, config |-> [gcm |-> aesKey]]

\* payload := make([]byte, PayloadLength); copy(payload[0:], iv);
\* copy(payload[IVLength:], ciphertext)
PayloadTagFirst(iv, ciphertext) ==
    iv \o SubSeq(ciphertext, NumBytes + 1, Len(ciphertext))
       \o SubSeq(ciphertext, 1, NumBytes)

\* The payload without copy(payload[0:], iv): make leaves the IV bytes zero.
PayloadWithoutIV(iv, ciphertext) == [i \in 1 .. IVLength |-> 0] \o ciphertext

Payload(iv, ciphertext) == iv \o ciphertext

\* c.Encrypt(id); ivr is what generateIV returns.
Encrypt(c, id, ivr) ==
    IF ivr.err THEN EncFailure("iv")
    ELSE LET plaintext == ToBytesBE(id)
             ciphertext == Seal(c.gcm, ivr.iv, plaintext)
         IN IF Len(ciphertext) # NumBytes + TagLength THEN EncFailure("sealed length")
            ELSE EncResult(NoError, id, Payload(ivr.iv, ciphertext))

\* if timestamp == 0 { timestamp = c.clock() }
EffectiveTimestampLiteral(ts, now) == ts

EffectiveTimestamp(ts, now) == IF ts = 0 THEN now ELSE ts

\* c.GenerateEncrypted(timestamp); now is what c.clock() returns, r what c.rng returns.
GenerateEncrypted(c, ts, now, r, ivr) ==
    LET id == GenerateResult(EffectiveTimestamp(ts, now), r)
    IN IF id.err # NoError THEN EncFailure("generate")
       ELSE Encrypt(c, id.value, ivr)

\* c.GenerateEncryptedNow(); now is what its own call of c.clock() returns,
\* again what the call inside GenerateEncrypted returns.
GenerateEncryptedNow(c, now, again, r, ivr) == GenerateEncrypted(c, now, again, r, ivr)

PayloadTooShort(bytes) == Len(bytes) < PayloadLength

PayloadWrongLength(bytes) == Len(bytes) # PayloadLength

\* c.FromEncryptedBytes(bytes)
FromEncryptedBytes(c, bytes) ==
    IF PayloadWrongLength(bytes) THEN EncFailure("length")
    ELSE LET iv == SubSeq(bytes, 1, IVLength)
             ciphertext == SubSeq(bytes, IVLength + 1, Len(bytes))
             opened == Open(c.gcm, iv, ciphertext)
         IN IF opened.err # NoError THEN EncFailure("decrypt")
            ELSE IF Len(opened.value) # NumBytes THEN EncFailure("plaintext length")
            ELSE LET parsed == FromBytesBE(opened.value)
                 IN IF parsed.err # NoError THEN EncFailure("parse")
                    ELSE EncResult(NoError, parsed.value, bytes)

\* c.FromEncryptedHex(encHex)
FromEncryptedHex(c, encHex) ==
    LET decoded == HexToBytes(encHex)
    IN IF decoded.err # NoError THEN EncFailure("hex")
       ELSE IF PayloadWrongLength(decoded.value) THEN EncFailure("length")
       ELSE FromEncryptedBytes(c, decoded.value)

\* e.ToEncryptedHex()
ToEncryptedHex(e) == HexFromBytes(e.payload)

\* make + copy: the new slice has a backing array of its own.
AliasedView(bytes) == [bytes |-> bytes, shared |-> TRUE]

DefensiveCopy(bytes) == [bytes |-> bytes, shared |-> FALSE]

\* e.ToEncryptedBytes()
ToEncryptedBytes(e) == DefensiveCopy(e.payload)

\* ------------------------------------------------------- encryption calls
Keys == {[i \in 1 .. n |-> 1] : n \in 0 .. MaxKeyLen}

IVSamples ==
    {[i \in 1 .. IVLength |-> 0], [i \in 1 .. IVLength |-> 255],
     [i \in 1 .. IVLength |-> i]}

\* What generateIV returns: an error of rand.Read, or twelve bytes.
IVResults == [err : {FALSE}, iv : IVSamples] \cup [err : {TRUE}, iv : {<<>>}]

Bits == 0 .. 7

\* Identifiers a caller encrypts: every identifier, and the largest word.
EncIds == Nano64Values \cup {(256 ^ NumBytes) - 1}

\* Identifiers whose payload bytes the caller writes to.
TamperIds == {0, (2 ^ WordBits) - 1, (256 ^ NumBytes) - 1}

FlipBitAt(bytes, i, k) == [bytes EXCEPT ![i] = BitXor(@, 2 ^ k)]

LowerCase(text) ==
    [i \in 1 .. Len(text) |-> IF IsHexChar(text[i]) THEN LowerHex[HexCharValue(text[i]) + 1]
                              ELSE text[i]]

\* Texts a caller may pass to FromEncryptedHex, made from the text it received.
HexVariants(text) ==
    {text, LowerCase(text), <<"0", "x">> \o text, <<"0", "X">> \o text,
     <<"0", "x", "0", "x">> \o text, <<>>, text \o <<"0">>, text \o <<"0", "0">>,
     SubSeq(text, 1, Len(text) - 1), SubSeq(text, 1, Len(text) - 2)}
    \cup {[text EXCEPT ![i] = "g"] : i \in 1 .. Len(text)}
    \cup {[text EXCEPT ![i] = "-"] : i \in {1, Len(text)}}

EncOk(rec) == rec.err = NoError

Created == config # NoConfig

Holding == encrypted # NoEncrypted

\* An encryption call returns; the package state is not touched.
EncReturn(rec) ==
    /\ out' = rec
    /\ prev' = out
    /\ UNCHANGED <<lastTimestamp, lastRandom, monotonicMutex, pc, timestamp, t,
                   random, issued>>

\* A constructor returns res: on success the caller holds the new object.
Hold(res) ==
    encrypted' = IF res.err = NoError THEN [ID |-> res.ID, payload |-> res.payload]
                 ELSE encrypted

NewEncryptedIDConfigCall(aesKey) ==
    /\ \E res \in {NewEncryptedIDConfig(aesKey)} :
       /\ config' = res.config
       /\ EncReturn(CodecRecord("NewEncryptedIDConfig", aesKey, res.err, res.config))
    /\ UNCHANGED <<encrypted, slice>>

EncryptCall(id, ivr) ==
    /\ Created
    /\ \E res \in {Encrypt(config, id, ivr)} :
       /\ Hold(res)
       /\ EncReturn(CodecRecord("Encrypt", [id |-> id, iv |-> ivr], res.err, res))
    /\ UNCHANGED <<config, slice>>

GenerateEncryptedCall(ts, now, r, ivr) ==
    /\ Created
    /\ \E res \in {GenerateEncrypted(config, ts, now, r, ivr)} :
       /\ Hold(res)
       /\ EncReturn(CodecRecord("GenerateEncrypted",
                                [timestamp |-> ts, clock |-> now, rng |-> r, iv |-> ivr],
                                res.err, res))
    /\ UNCHANGED <<config, slice>>

GenerateEncryptedNowCall(now, again, r, ivr) ==
    /\ Created
    /\ \E res \in {GenerateEncryptedNow(config, now, again, r, ivr)} :
       /\ Hold(res)
       /\ EncReturn(CodecRecord("GenerateEncryptedNow",
                                [timestamp |-> now, clock |-> again, rng |-> r, iv |-> ivr],
                                res.err, res))
    /\ UNCHANGED <<config, slice>>

\* The caller receives the returned slice.
ToEncryptedBytesCall ==
    /\ Holding
    /\ slice' = ToEncryptedBytes(encrypted)
    /\ EncReturn(CodecRecord("ToEncryptedBytes", encrypted, NoError, encrypted.payload))
    /\ UNCHANGED <<config, encrypted>>

ToEncryptedHexCall ==
    /\ Holding
    /\ EncReturn(CodecRecord("ToEncryptedHex", encrypted, NoError, ToEncryptedHex(encrypted)))
    /\ UNCHANGED <<config, encrypted, slice>>

\* The caller passes the slice it holds; on success the object is built on a
\* copy of it (payload := make(...); copy(payload, bytes)).
FromEncryptedBytesCall ==
    /\ Created
    /\ \E res \in {FromEncryptedBytes(config, slice.bytes)} :
       /\ Hold(res)
       /\ slice' = IF res.err = NoError THEN DefensiveCopy(slice.bytes)
                   ELSE slice
       /\ EncReturn(CodecRecord("FromEncryptedBytes", slice.bytes, res.err, res))
    /\ UNCHANGED config

FromEncryptedHexCall(encHex) ==
    /\ Created
    /\ \E res \in {FromEncryptedHex(config, encHex)} :
       /\ Hold(res)
       /\ slice' = IF res.err = NoError THEN [slice EXCEPT !.shared = FALSE] ELSE slice
       /\ EncReturn(CodecRecord("FromEncryptedHex", encHex, res.err, res))
    /\ UNCHANGED config

\* The caller writes to the slice it holds: bit k of byte i is flipped.  The
\* write reaches every slice with the same backing array.
FlipBit(i, k) ==
    /\ encrypted.ID \in TamperIds
    /\ i \in 1 .. Len(slice.bytes)
    /\ slice' = [slice EXCEPT !.bytes = FlipBitAt(@, i, k)]
    /\ encrypted' = IF slice.shared
                    THEN [encrypted EXCEPT !.payload = FlipBitAt(slice.bytes, i, k)]
                    ELSE encrypted
    /\ EncReturn(CodecRecord("FlipBit", <<i, k>>, NoError, FlipBitAt(slice.bytes, i, k)))
    /\ UNCHANGED config

\* The caller makes a slice of n bytes out of the one it holds.
Resize(n) ==
    /\ n # Len(slice.bytes)
    /\ slice' = DefensiveCopy(SubSeq(Pad(slice.bytes, n), 1, n))
    /\ EncReturn(CodecRecord("Resize", n, NoError, SubSeq(Pad(slice.bytes, n), 1, n)))
    /\ UNCHANGED <<config, encrypted>>

After(ops) == out.op \in ops /\ out.err = NoError

\* The last call returned from one of ops, the one before it was one of before.
AfterBoth(ops, before) == After(ops) /\ prev.op \in before

NextEnc ==
    \/ Fresh /\ \E aesKey \in Keys : NewEncryptedIDConfigCall(aesKey)
    \/ Fresh /\ \E ts \in Timestamps, r \in RngResults : Generate(ts, r)
    \/ After({"NewEncryptedIDConfig"})
       /\ \E id \in EncIds, ivr \in IVResults : EncryptCall(id, ivr)
    \/ After({"NewEncryptedIDConfig"})
       /\ \E ts, now \in Timestamps, r \in RngResults, ivr \in IVResults :
             GenerateEncryptedCall(ts, now, r, ivr)
    \/ After({"NewEncryptedIDConfig"})
       /\ \E now, again \in Timestamps, r \in RngResults, ivr \in IVResults :
             GenerateEncryptedNowCall(now, again, r, ivr)
    \/ After({"Encrypt", "FlipBit"}) /\ ToEncryptedBytesCall
    \/ After({"Encrypt", "FlipBit"}) /\ ToEncryptedHexCall
    \/ After({"ToEncryptedBytes", "FlipBit", "Resize"}) /\ FromEncryptedBytesCall
    \/ AfterBoth({"ToEncryptedHex"}, {"Encrypt"})
       /\ \E encHex \in HexVariants(out.res) : FromEncryptedHexCall(encHex)
    \/ AfterBoth({"ToEncryptedBytes", "FromEncryptedBytes"}, {"Encrypt", "ToEncryptedBytes"})
       /\ \E i \in 1 .. PayloadLength, k \in Bits : FlipBit(i, k)
    \/ AfterBoth({"ToEncryptedBytes"}, {"Encrypt"})
       /\ \E n \in 0 .. PayloadLength + 1 : Resize(n)

SpecEnc == Init /\ [][NextEnc]_vars

\* ------------------------------------------------------ encryption claims

\* The call recorded in out was made on what the call recorded in prev returned.
Follows(first, second) == prev.op = first /\ out.op = second /\ EncOk(prev)

NoIdentifier(rec) == rec.res.ID = NoValue /\ rec.res.payload = <<>>

\* C15: for every identifier and every context made with a valid key, Encrypt
\* succeeds whenever an IV was drawn and returns a payload of PayloadLength
\* bytes; FromEncryptedBytes of the bytes of that payload, and
\* FromEncryptedHex of its hexadecimal form of 2 * PayloadLength characters,
\* succeed under the same context with the ID that was encrypted.
C15_EncryptRoundTrip ==
    /\ out.op = "Encrypt" =>
          /\ EncOk(out) <=> ~out.arg.iv.err
          /\ EncOk(out) => /\ Len(out.res.payload) = PayloadLength
                           /\ out.res.ID = out.arg.id
                           /\ encrypted.ID = out.arg.id
                           /\ encrypted.payload = out.res.payload
    /\ Follows("Encrypt", "ToEncryptedBytes") =>
          out.arg.ID = prev.arg.id /\ out.res = prev.res.payload
    /\ Follows("Encrypt", "ToEncryptedHex") =>
          out.arg.ID = prev.arg.id /\ Len(out.res) = 2 * PayloadLength
    /\ Follows("ToEncryptedBytes", "FromEncryptedBytes") /\ out.arg = prev.res =>
          /\ EncOk(out)
          /\ out.res.ID = prev.arg.ID
          /\ encrypted.ID = prev.arg.ID
    /\ Follows("ToEncryptedHex", "FromEncryptedHex") /\ out.arg = prev.res =>
          /\ EncOk(out)
          /\ out.res.ID = prev.arg.ID
          /\ encrypted.ID = prev.arg.ID

\* C15 witness: under a key of 32 bytes the payload of the largest word was
\* decrypted from its bytes and gave that word back.
C15_Witness ==
    /\ Follows("ToEncryptedBytes", "FromEncryptedBytes")
    /\ out.arg = prev.res
    /\ Len(config.gcm) = 32
    /\ EncOk(out)
    /\ out.res.ID = (256 ^ NumBytes) - 1
    /\ Len(out.arg) = PayloadLength

\* C16: when one bit of the bytes of a payload is flipped, at any position of
\* the IV, the ciphertext or the tag, FromEncryptedBytes of the result under
\* the same context fails and returns no identifier.
C16_TamperDetected ==
    Follows("FlipBit", "FromEncryptedBytes") =>
        /\ out.arg = FlipBitAt(encrypted.payload, prev.arg[1], prev.arg[2])
        /\ ~EncOk(out)
        /\ NoIdentifier(out)

\* C16 witness: a bit of the IV was flipped and the decryption failed.
C16_Witness ==
    /\ Follows("FlipBit", "FromEncryptedBytes")
    /\ prev.arg[1] <= IVLength
    /\ out.err = "decrypt"
    /\ Len(out.arg) = PayloadLength

\* The text behind one optional 0x / 0X prefix.
HexBody(text) ==
    IF Len(text) >= 2 /\ (SubSeq(text, 1, 2) = <<"0", "x">>
                          \/ SubSeq(text, 1, 2) = <<"0", "X">>)
    THEN SubSeq(text, 3, Len(text))
    ELSE text

\* An even number of hexadecimal digits, with or without the prefix.
ValidHex(text) ==
    /\ Len(HexBody(text)) % 2 = 0
    /\ \A i \in 1 .. Len(HexBody(text)) : HexBody(text)[i] \in HexCharacters

\* C17: FromEncryptedBytes fails with the length error for every input that
\* is not PayloadLength bytes long; FromEncryptedHex fails for every text
\* that is not valid hexadecimal, and with the length error for every valid
\* text that does not decode to PayloadLength bytes; no identifier is returned.
C17_RejectsMalformed ==
    /\ (out.op = "FromEncryptedBytes" /\ Len(out.arg) # PayloadLength) =>
          out.err = "length" /\ NoIdentifier(out)
    /\ (out.op = "FromEncryptedHex" /\ ~ValidHex(out.arg)) =>
          out.err = "hex" /\ NoIdentifier(out)
    /\ (out.op = "FromEncryptedHex" /\ ValidHex(out.arg)
        /\ Len(HexBody(out.arg)) # 2 * PayloadLength) =>
          out.err = "length" /\ NoIdentifier(out)

\* C17 witness: an input one byte longer than a payload was rejected.
C17_Witness ==
    /\ out.op = "FromEncryptedBytes"
    /\ Len(out.arg) = PayloadLength + 1
    /\ out.err = "length"

ValidGeneration(ts, r, ivr) ==
    /\ ts \in 0 .. maxTimestamp
    /\ ~r.err
    /\ ~ivr.err

\* C18: NewEncryptedIDConfig fails, and gives no context, exactly when the
\* key is not 16, 24 or 32 bytes long; otherwise it gives a context with that
\* key, and GenerateEncrypted on the context succeeds for every valid
\* timestamp when the rng and the IV source succeed.
C18_KeySizes ==
    /\ out.op = "NewEncryptedIDConfig" =>
          /\ ~EncOk(out) <=> Len(out.arg) \notin {16, 24, 32}
          /\ ~EncOk(out) => (config = NoConfig /\ out.res = NoConfig)
          /\ EncOk(out) => (config = [gcm |-> out.arg] /\ out.res = config)
    /\ out.op = "GenerateEncrypted" =>
          /\ Len(config.gcm) \in {16, 24, 32}
          /\ (out.arg.timestamp # 0
              /\ ValidGeneration(out.arg.timestamp, out.arg.rng, out.arg.iv))
             => (EncOk(out) /\ Len(out.res.payload) = PayloadLength)

\* C18 witness: a context made with a key of 24 bytes generated an encrypted
\* identifier.
C18_Witness ==
    /\ Follows("NewEncryptedIDConfig", "GenerateEncrypted")
    /\ Len(prev.arg) = 24
    /\ EncOk(out)
    /\ out.res.ID \in Nano64Values

\* C19: GenerateEncrypted succeeds exactly when the timestamp it uses is in
\* range and the rng and the IV source succeed; the timestamp of the
\* identifier is the value of the context's clock when the argument is 0 and
\* the argument otherwise (GenerateEncryptedNow passes a first value of the
\* clock as the argument).  Generate, given 0, keeps timestamp 0.
C19_ZeroMeansNow ==
    /\ out.op \in {"GenerateEncrypted", "GenerateEncryptedNow"} =>
          LET used == IF out.arg.timestamp = 0 THEN out.arg.clock
                      ELSE out.arg.timestamp
          IN  /\ EncOk(out) <=> ValidGeneration(used, out.arg.rng, out.arg.iv)
              /\ EncOk(out) => GetTimestamp(out.res.ID) = used
    /\ (out.op = "Generate" /\ out.req = 0) =>
          /\ Succeeded(out) <=> out.rnd # RngFailed
          /\ Succeeded(out) => GetTimestamp(out.value) = 0

\* C19 witness: GenerateEncrypted(0) with the clock at the last timestamp
\* returned an identifier of that timestamp.
C19_Witness ==
    /\ out.op = "GenerateEncrypted"
    /\ out.arg.timestamp = 0
    /\ out.arg.clock = maxTimestamp
    /\ EncOk(out)
    /\ GetTimestamp(out.res.ID) = maxTimestamp

\* C20: a write of the caller to the slice ToEncryptedBytes returned, or to
\* the slice it passed to FromEncryptedBytes, changes neither the object nor
\* what ToEncryptedBytes and ToEncryptedHex return for it.
C20_PayloadIsolated ==
    [][out'.op = "FlipBit" =>
          /\ encrypted' = encrypted
          /\ ToEncryptedBytes(encrypted').bytes = ToEncryptedBytes(encrypted).bytes
          /\ ToEncryptedHex(encrypted') = ToEncryptedHex(encrypted)
          /\ slice'.bytes # ToEncryptedBytes(encrypted').bytes]_vars

\* C20 witness: the caller wrote to the slice it had passed to
\* FromEncryptedBytes, and the payload of the object differs from that slice.
C20_Witness ==
    /\ Follows("FromEncryptedBytes", "FlipBit")
    /\ Holding
    /\ slice.bytes = out.res
    /\ encrypted.payload = prev.arg
    /\ slice.bytes # encrypted.payload

\* ====================================================== database binding
\* A driver value has a dynamic type: nil, int64, uint64, []byte, or another
\* type (string, float64, ...).  The integers are as wide as the encoded word.
SqlValue(type, val) == [type |-> type, val |-> val]
SqlNil == SqlValue("nil", 0)

\* uint64(v) of an int64 v: the same bit pattern.
Uint64OfInt64(v) == v % (256 ^ NumBytes)

\* The int64 with the bit pattern of the word w.
Int64OfUint64(w) == IF w >= (256 ^ NumBytes) \div 2 THEN w - (256 ^ NumBytes) ELSE w

\* n.Value(): the driver value, never an error.
Value(n) == SqlValue("[]byte", ToBytes(n))

\* case []byte: if len(v) != 8 { return error }
ScanWrongLength(v) == Len(v) # NumBytes

\* if value == nil { n.value = 0; return nil }
ScanNil(n) == Parsed(NoError, 0)

\* case int64: n.value = uint64(v)
ScanInt64Clamped(v) == Parsed(NoError, IF v < 0 THEN 0 ELSE v)

ScanInt64(v) == Parsed(NoError, Uint64OfInt64(v))

\* n.Scan(value) on a receiver holding n: the error and the receiver after it.
Scan(n, value) ==
    IF value.type = "nil" THEN ScanNil(n)
    ELSE IF value.type = "int64" THEN ScanInt64(value.val)
    ELSE IF value.type = "uint64" THEN Parsed(NoError, value.val)
    ELSE IF value.type = "[]byte"
         THEN IF ScanWrongLength(value.val) THEN Parsed("length", n)
              ELSE LET parsed == FromBytesBE(value.val)
                   IN IF parsed.err # NoError THEN Parsed("bytes", n)
                      ELSE Parsed(NoError, parsed.value)
    ELSE Parsed("type", n)

\* A NullNano64: an identifier and its validity flag.
NullNano64(id, valid) == [ID |-> id, Valid |-> valid]

\* n.Scan(value) on a NullNano64: nil gives the invalid NullNano64, any other
\* value is scanned into ID and is valid when that scan succeeds.
NullScan(n, value) ==
    IF value.type = "nil" THEN Parsed(NoError, NullNano64(0, FALSE))
    ELSE LET scanned == Scan(n.ID, value)
         IN IF scanned.err # NoError THEN Parsed(scanned.err, NullNano64(0, FALSE))
            ELSE Parsed(NoError, NullNano64(scanned.value, TRUE))

\* ------------------------------------------------------------ binding calls
\* Driver values whose payload is a number (none for nil and other types),
\* and those that are byte slices.
SqlNumbers ==
    {SqlNil, SqlValue("string", 0), SqlValue("float64", 0)}
    \cup {SqlValue("uint64", w) : w \in Uint64Samples}
    \cup {SqlValue("int64", Int64OfUint64(w)) : w \in Uint64Samples}

SqlBytes == {SqlValue("[]byte", b) : b \in ByteStrings}

\* What the receiver of a Scan holds before the call.
Receivers == {0, 1}

ValueCall(n) == Record(CodecRecord("Value", n, NoError, Value(n)))

ScanCall(n, value) ==
    \E res \in {Scan(n, value)} :
        Record(CodecRecord("Scan", [n |-> n, value |-> value], res.err, res.value))

NullScanCall(n, value) ==
    \E res \in {NullScan(NullNano64(n, TRUE), value)} :
        Record(CodecRecord("NullScan", [n |-> n, value |-> value], res.err, res.value))

NextSql ==
    \/ Fresh /\ \E n \in Uint64Samples : ValueCall(n)
    \/ Fresh /\ \E n \in Receivers, value \in SqlNumbers : ScanCall(n, value)
    \/ Fresh /\ \E n \in Receivers, value \in SqlBytes : ScanCall(n, value)
    \/ out.op = "Value" /\ \E n \in Receivers : ScanCall(n, out.res)
    \/ Fresh /\ \E n \in Receivers, value \in SqlNumbers : NullScanCall(n, value)
    \/ Fresh /\ \E n \in Receivers, value \in SqlBytes : NullScanCall(n, value)

SpecSql == Init /\ [][NextSql]_vars

\* ----------------------------------------------------------- binding claims
\* A scan presents an identifier: it returned no error and, where the
\* receiver has a validity flag, the flag is set.  A Nano64 has no flag.
Presents(rec) ==
    /\ rec.err = NoError
    /\ rec.op = "NullScan" => rec.res.Valid

\* C21: scanning nil yields the state in which no identifier is present, and
\* never the zero identifier as a present value, for Scan on a Nano64 and on
\* a NullNano64.
C21_NullIsAbsent ==
    (out.op \in {"Scan", "NullScan"} /\ out.arg.value.type = "nil") => ~Presents(out)

ModelUint32Bits == 5

Uint32Bits == ModelUint32Bits

\* rand.Read(buf) followed by binary.BigEndian.Uint32(buf): the word read, or
\* the error of the system source.
ReadResults ==
    [val : 0 .. (2 ^ Uint32Bits) - 1, err : {FALSE}] \cup [val : {0}, err : {TRUE}]

\* Requests: the range 1 .. Uint32Bits and values on both sides of it.
RngRequests == -1 .. (Uint32Bits + 2)

RngOutcome(err, val) == [err |-> err, val |-> val]

\* if bits <= 0 || bits > 32
BitsOutOfRange(bits) == bits <= 0 \/ bits > Uint32Bits

RngMaskFull(bits) == (2 ^ Uint32Bits) - 1

\* mask := uint32((1 << bits) - 1)
RngMask(bits) == (2 ^ bits) - 1

DefaultRNG(bits, read) ==
    IF BitsOutOfRange(bits) THEN RngOutcome("range", 0)
    ELSE IF read.err THEN RngOutcome("entropy", 0)
    ELSE IF bits = Uint32Bits THEN RngOutcome(NoError, read.val)
    ELSE RngOutcome(NoError, BitAnd(read.val, RngMask(bits)))

DefaultRNGCall(bits, read) ==
    \E res \in {DefaultRNG(bits, read)} :
        Record(CodecRecord("DefaultRNG", [bits |-> bits, read |-> read],
                           res.err, res.val))

NextRng == Fresh /\ \E bits \in RngRequests, read \in ReadResults : DefaultRNGCall(bits, read)

SpecRng == Init /\ [][NextRng]_vars

BitsInRange(rec) == rec.arg.bits \in 1 .. Uint32Bits

\* C23 as stated: DefaultRNG(bits) fails exactly when bits is outside
\* [1, 32], and for every bits in [1, 32] it returns a value below 2^bits.
C23_FailsExactlyOutsideRange ==
    out.op = "DefaultRNG" =>
        /\ ~CodecOk(out) <=> ~BitsInRange(out)
        /\ BitsInRange(out) => out.res < 2 ^ out.arg.bits

\* C23 amended: DefaultRNG(bits) fails with the range error exactly when bits
\* is outside [1, 32]; for bits in [1, 32] it fails only when reading the
\* system entropy source fails, and otherwise returns the low `bits` bits of
\* the word read, a value below 2^bits (the whole word for bits = 32).
C23_RangeErrorExactlyOutsideRange ==
    out.op = "DefaultRNG" =>
        /\ out.err = "range" <=> ~BitsInRange(out)
        /\ BitsInRange(out) =>
              IF out.arg.read.err THEN out.err = "entropy"
              ELSE /\ CodecOk(out)
                   /\ out.res < 2 ^ out.arg.bits
                   /\ out.res = out.arg.read.val % (2 ^ out.arg.bits)

C23_Witness ==
    /\ out.op = "DefaultRNG"
    /\ out.arg.bits = Uint32Bits
    /\ CodecOk(out)
    /\ out.res = (2 ^ Uint32Bits) - 1

\* ------------------------------------------------ calls on one context
\* One context is made with a valid key; Encrypt and GenerateEncrypted are
\* then called on it any number of times, each call with its own draw.
ValidKeys == {aesKey \in Keys : ~KeySizeError(aesKey)}

NextIv ==
    \/ Fresh /\ \E aesKey \in ValidKeys : NewEncryptedIDConfigCall(aesKey)
    \/ ~Fresh /\ \E id \in {0, (256 ^ NumBytes) - 1}, ivr \in IVResults :
                    EncryptCall(id, ivr)
    \/ ~Fresh /\ \E r \in {x \in RngResults : x.val = 0}, ivr \in IVResults :
                    GenerateEncryptedCall(0, maxTimestamp, r, ivr)

SpecIv == Init /\ [][NextIv]_vars

\* The call recorded in rec returned a payload.
Sealed(rec) == rec.op \in {"Encrypt", "GenerateEncrypted"} /\ EncOk(rec)

PayloadIV(rec) == SubSeq(rec.res.payload, 1, IVLength)

\* C24 as stated: no two Encrypt / GenerateEncrypted calls on one context
\* produce payloads with the same IV.
C24_NoTwoPayloadsShareIV ==
    (Sealed(prev) /\ Sealed(out)) => PayloadIV(out) # PayloadIV(prev)

\* C24 amended: every successful Encrypt / GenerateEncrypted call puts at the
\* head of its payload the IVLength bytes generateIV drew in that call, and
\* fails when the draw fails; two calls on one context produce payloads with
\* the same IV exactly when the random source gave both the same bytes.
C24_PayloadCarriesDrawnIV ==
    /\ Sealed(out) => ~out.arg.iv.err /\ PayloadIV(out) = out.arg.iv.iv
    /\ (out.op = "Encrypt" /\ out.arg.iv.err) => out.err = "iv"
    /\ (Sealed(prev) /\ Sealed(out)) =>
          (PayloadIV(out) = PayloadIV(prev) <=> out.arg.iv.iv = prev.arg.iv.iv)

\* C24 witness: Encrypt and then GenerateEncrypted succeeded on one context
\* with different draws, and their payloads start with different IVs.
C24_Witness ==
    /\ prev.op = "Encrypt" /\ out.op = "GenerateEncrypted"
    /\ Sealed(prev) /\ Sealed(out)
    /\ out.arg.iv.iv # prev.arg.iv.iv
    /\ PayloadIV(out) # PayloadIV(prev)
    /\ Len(PayloadIV(out)) = IVLength

\* ======================================================== sequencer state
\* The word (tt << timestampShift) | rnd, by arithmetic.
Packed(tt, rnd) == tt * (2 ^ RandomBits) + rnd

\* C25: after every successful GenerateMonotonic call lastTimestamp is the
\* timestamp field and lastRandom the random field of the identifier the call
\* returned, whether the random field was drawn, incremented or wrapped.
C25_StateIsLastIssued ==
    (IsMonotonic(out) /\ Succeeded(out)) =>
        /\ lastTimestamp = out.value \div (2 ^ RandomBits)
        /\ lastRandom = out.value % (2 ^ RandomBits)
        /\ out.value = Packed(lastTimestamp, lastRandom)

\* C25 witness: an increment reached randomMask and the next call wrapped to
\* the next millisecond; the state holds the fields of the wrapped identifier.
C25_Witness ==
    /\ IsMonotonic(prev) /\ Succeeded(prev) /\ prev.rnd = NoValue
    /\ GetRandom(prev.value) = randomMask
    /\ IsMonotonic(out) /\ Succeeded(out) /\ out.rnd = NoValue
    /\ lastTimestamp = GetTimestamp(prev.value) + 1
    /\ lastRandom = 0
    /\ out.value = Packed(lastTimestamp, 0)

\* C26: a successful GenerateMonotonic call that requests a timestamp not
\* above lastTimestamp returns (lastTimestamp << RandomBits | lastRandom) + 1
\* without a call of the entropy source; from lastRandom = randomMask that is
\* (lastTimestamp + 1, 0).
C26_IncrementByOne ==
    [][(IsMonotonic(out') /\ Succeeded(out') /\ out'.req <= lastTimestamp) =>
        /\ out'.value = Packed(lastTimestamp, lastRandom) + 1
        /\ out'.rnd = NoValue
        /\ lastRandom = randomMask =>
              /\ GetTimestamp(out'.value) = lastTimestamp + 1
              /\ GetRandom(out'.value) = 0]_vars

\* C26 witness: a call requesting an older timestamp wrapped the random field
\* into the next millisecond.
C26_Witness ==
    /\ IsMonotonic(prev) /\ Succeeded(prev)
    /\ GetRandom(prev.value) = randomMask
    /\ IsMonotonic(out) /\ Succeeded(out)
    /\ out.req < GetTimestamp(prev.value)
    /\ out.value = prev.value + 1
    /\ GetRandom(out.value) = 0
    /\ out.rnd = NoValue

\* C27: a GenerateMonotonic call invokes the entropy source only when the
\* requested timestamp is above lastTimestamp, and then always (so on every
\* first call); a call requesting a timestamp not above lastTimestamp never
\* fails with the entropy error, whatever the source would return; a call
\* requesting a valid timestamp above lastTimestamp fails with the entropy
\* error whenever the source fails.
C27_EntropyOnlyOnNewTimestamp ==
    [][IsMonotonic(out') =>
        /\ out'.rnd # NoValue => out'.req > lastTimestamp
        /\ out'.req <= lastTimestamp => (out'.rnd = NoValue /\ out'.err # "rng")
        /\ (out'.req > lastTimestamp /\ out'.req \in 0 .. maxTimestamp) =>
              /\ out'.rnd # NoValue
              /\ out'.rnd = RngFailed <=> out'.err = "rng"
              /\ out'.rnd = RngFailed => out'.value = NoValue
        /\ lastTimestamp = -1 /\ out'.req \in 0 .. maxTimestamp => out'.rnd # NoValue]_vars

\* C27 witness: after an entropy failure on a new timestamp, a call on the
\* timestamp in the state succeeded without the entropy source.
C27_Witness ==
    /\ IsMonotonic(prev) /\ prev.err = "rng" /\ prev.rnd = RngFailed
    /\ prev.req > lastTimestamp
    /\ IsMonotonic(out) /\ Succeeded(out) /\ out.rnd = NoValue
    /\ lastTimestamp >= 0

\* C28: in every reachable state, also while concurrent calls are between
\* their two stores, lastTimestamp is in [-1, maxTimestamp] and lastRandom in
\* [0, randomMask]; lastTimestamp never decreases.
C28_StateInRange ==
    /\ [](lastTimestamp \in -1 .. maxTimestamp /\ lastRandom \in 0 .. randomMask)
    /\ [][lastTimestamp' >= lastTimestamp]_vars

\* C28 witness: the state reached both upper ends while a caller that asked
\* for an older timestamp is inside the section.
C28_Witness ==
    /\ lastTimestamp = maxTimestamp
    /\ lastRandom = randomMask
    /\ \E p \in Callers : pc[p] = "branch" /\ timestamp[p] < lastTimestamp

\* ------------------------------------------------------- fair scheduling
\* What the entropy source returns when it keeps to the width asked for: a
\* value of RandomBits bits, or an error.
FieldDraws == {r \in RngResults : r.val <= randomMask}

\* The two newest milliseconds: requests for them reach the draw, the
\* increment, the wrap and the overflow.
LastTimestamps == {maxTimestamp - 1, maxTimestamp}

\* A statement of caller p between Lock and the return.  The entropy source
\* terminates: Draw is one of the statements.
SectionStep(p) ==
    \/ Clamp(p)
    \/ Increment(p)
    \/ \E r \in FieldDraws : Draw(p, r)
    \/ Bump(p)
    \/ WrapStoreTimestamp(p)
    \/ WrapStoreRandom(p)
    \/ StoreTimestamp(p)
    \/ StoreRandom(p)

\* The scheduler runs every goroutine that can run, and sync.Mutex hands the
\* mutex to a goroutine that keeps waiting for it (starvation mode).
Fairness == \A p \in Callers : WF_vars(SectionStep(p)) /\ SF_vars(Lock(p))

NextLive ==
    \E p \in Callers :
        \/ \E ts \in LastTimestamps \cup {maxTimestamp + 1} : Call(p, ts)
        \/ Lock(p)
        \/ SectionStep(p)

SpecLive == Init /\ [][NextLive]_vars /\ Fairness

\* C29: the holder of monotonicMutex is a caller between Lock and its return
\* and every return from there, on the success, entropy-error and overflow
\* paths, frees the mutex; so the mutex is free whenever no call is in
\* progress and, under fair scheduling with an entropy source that returns,
\* every caller that entered GenerateMonotonic eventually returns.
C29_MutexReleased ==
    /\ [](\A p \in Callers : monotonicMutex = p <=> InSection(p))
    /\ []((\A p \in Callers : pc[p] = "idle") => monotonicMutex = Free)
    /\ [][\A p \in Callers :
            (InSection(p) /\ pc'[p] = "idle") => monotonicMutex' = Free]_vars
    /\ \A p \in Callers : (pc[p] # "idle") ~> (pc[p] = "idle")

\* C29 witness: one caller holds the mutex on the overflow path, about to
\* return the error, while another waits at Lock.
C29_Witness ==
    \E p, q \in Callers :
        /\ pc[p] = "bump"
        /\ monotonicMutex = p
        /\ Overflows(t[p] + 1)
        /\ pc[q] = "lock"

\* ------------------------------------------------------ interleaved calls
\* Calls of the sequencer with calls of the other functions between them, any
\* number of them in any order: Generate, the codec on a fixed word, and one
\* context that encrypts that word and decrypts the bytes of the payload.
MixWord == (256 ^ NumBytes) - 1

MixKey == [i \in 1 .. 16 |-> 1]

MixIV == [err |-> FALSE, iv |-> [i \in 1 .. IVLength |-> i]]

\* Draws of the width asked for, and the error.
MixDraws == {r \in RngResults : r.val <= randomMask}

NextMix ==
    \/ \E ts \in 0 .. maxTimestamp, r \in MixDraws : GenerateMonotonic(ts, r)
    \/ \E ts \in {maxTimestamp, maxTimestamp + 1} : Generate(ts, [val |-> 0, err |-> FALSE])
    \/ ToHexCall(MixWord)
    \/ out.op = "ToHex" /\ FromHexCall(out.res)
    \/ ToBytesCall(MixWord)
    \/ out.op = "ToBytes" /\ FromBytesCall(out.res)
    \/ ~Created /\ NewEncryptedIDConfigCall(MixKey)
    \/ Created /\ EncryptCall(MixWord, MixIV)
    \/ Holding /\ ToEncryptedBytesCall
    \/ Len(slice.bytes) = PayloadLength /\ FromEncryptedBytesCall

SpecMix == Init /\ [][NextMix]_vars

\* The sequencer state is the one its last successful call left.
StateOfIssued ==
    IF issued = NoValue THEN lastTimestamp = -1 /\ lastRandom = 0
    ELSE lastTimestamp = GetTimestamp(issued) /\ lastRandom = GetRandom(issued)

\* C30: Generate, the codec functions, Encrypt and FromEncryptedBytes leave
\* lastTimestamp, lastRandom and the mutex as they are, and return what they
\* return from any sequencer state; with any number of such calls between
\* GenerateMonotonic calls the sequencer state stays the one of the last
\* identifier the sequencer issued, and the next identifier it issues is
\* greater than that one.
C30_OtherCallsLeaveSequencer ==
    /\ [](StateOfIssued /\ monotonicMutex = Free)
    /\ [][~IsMonotonic(out') =>
            /\ lastTimestamp' = lastTimestamp
            /\ lastRandom' = lastRandom
            /\ issued' = issued]_vars
    /\ [][(IsMonotonic(out') /\ Succeeded(out') /\ issued # NoValue) =>
            /\ out'.value > issued
            /\ issued' = out'.value]_vars
    /\ []((IsGenerate(out) /\ Succeeded(out)) => out.value = Packed(out.req, 0))
    /\ []((out.op = "FromHex" \/ out.op = "FromBytes") => out.res = MixWord)
    /\ []((out.op = "FromEncryptedBytes") => (EncOk(out) /\ out.res.ID = MixWord))

\* C30 witness: the sequencer issued an identifier, Generate and then a
\* decryption were called, and the state is still that of the identifier.
C30_Witness ==
    /\ issued # NoValue
    /\ GetTimestamp(issued) < maxTimestamp
    /\ IsGenerate(prev) /\ Succeeded(prev) /\ prev.req = maxTimestamp
    /\ out.op = "FromEncryptedBytes" /\ EncOk(out)
    /\ lastTimestamp = GetTimestamp(issued)
    /\ lastRandom = GetRandom(issued)
====
